---- MODULE Spec2Model ----
(***************************************************************************)
(* Creative-chess: the game hook (src/src/hooks/useChessGame.ts) and the   *)
(* action catalogue (src/unnamed/part_000, lines 1-401, imported by the    *)
(* hook as '@/lib/chess-actions').                                         *)
(*                                                                         *)
(* The chess engine is the chess.js library, release line 1.x (the source  *)
(* uses Chess as a type, catches the exception move() throws on an illegal *)
(* move, and imports the Square type).  The parts of it the hook and the   *)
(* catalogue call are modelled here by what they do:                       *)
(*   get / put / remove / turn,                                            *)
(*   fen() and new Chess(fen), which validates the position and throws     *)
(*     when a king is missing or duplicated or a pawn stands on the first  *)
(*     or last rank,                                                       *)
(*   move({from, to}), which throws unless the move is legal for the side  *)
(*     to move (promotion needs a promotion piece, which makeMove never    *)
(*     passes, so a pawn step onto the last rank is refused).              *)
(* Castling and en passant are not modelled; the squares the moves are     *)
(* drawn from are chosen so that neither can occur.                        *)
(*                                                                         *)
(* A handler runs to completion on the state of the latest render, so each *)
(* call of makeMove, executeAction and resetGame is one atomic step.       *)
(***************************************************************************)
EXTENDS Integers, Sequences, FiniteSets

VARIABLES
    gameState,       \* useState<GameState>: chess, currentPlayer, phase, ...
    actionRegistry,  \* useState registry: action id -> used?
    lastOp           \* history: the last handler call, what it returned, and
                     \* for an action that was carried out its arguments

vars == <<gameState, actionRegistry, lastOp>>

----------------------------------------------------------------------------
(* Bounds of the model *)

\* no move is attempted once halfMoves has reached this value (game from new)
MaxHalfMoves == 21
\* once this many actions have been used, only used ones are attempted again
MaxUsed == 1
\* the same, in a game from a late position
MaxMidUsed == 2
\* longest target list handed to Rocket Barrage
MaxTargets == 4
\* moves played from a late position
MaxMidMoves == 1
\* longest target list handed to Rocket Barrage in a game from a late position
MaxMidTargets == 1

----------------------------------------------------------------------------
(* Squares and pieces *)

Squares == 0..63

File(sq) == sq % 8          \* charCodeAt(0) - 97
Rank(sq) == sq \div 8       \* parseInt(sq[1]) - 1

\* the square with file letter index f (a = 0) and rank digit r (1..8)
SquareAt(f, r) == (r - 1) * 8 + f

Colors == {"w", "b"}
PieceTypes == {"p", "r", "n", "b", "q", "k"}

\* chess.get(square) of an empty square
None == [color |-> "-", type |-> "-"]

Piece(c, t) == [color |-> c, type |-> t]

Abs(x) == IF x < 0 THEN -x ELSE x

\* faulty variant: the larger of the two differences (king moves)
getSquareDistanceKing(sq1, sq2) ==
    IF Abs(File(sq1) - File(sq2)) >= Abs(Rank(sq1) - Rank(sq2))
    THEN Abs(File(sq1) - File(sq2)) ELSE Abs(Rank(sq1) - Rank(sq2))

getSquareDistance(sq1, sq2) ==
    Abs(File(sq1) - File(sq2)) + Abs(Rank(sq1) - Rank(sq2))

getOpponentColor(color) == IF color = "w" THEN "b" ELSE "w"

----------------------------------------------------------------------------
(* chess.js: position, FEN, validation *)

BackRank == <<"r", "n", "b", "q", "k", "b", "n", "r">>

\* new Chess(): the standard starting position, white to move
DefaultPosition ==
    [board |-> [sq \in Squares |->
                  CASE Rank(sq) = 0 -> Piece("w", BackRank[File(sq) + 1])
                    [] Rank(sq) = 1 -> Piece("w", "p")
                    [] Rank(sq) = 6 -> Piece("b", "p")
                    [] Rank(sq) = 7 -> Piece("b", BackRank[File(sq) + 1])
                    [] OTHER -> None],
     turn |-> "w"]

UpperCase == [t \in PieceTypes |->
                CASE t = "p" -> "P" [] t = "r" -> "R" [] t = "n" -> "N"
                  [] t = "b" -> "B" [] t = "q" -> "Q" [] t = "k" -> "K"]

\* the FEN letter of a square's content ("1" for an empty square; the
\* run-length merging of adjacent empty squares is left out)
FenSymbol(piece) ==
    IF piece = None THEN "1"
    ELSE IF piece.color = "w" THEN UpperCase[piece.type] ELSE piece.type

SymbolPiece(ch) ==
    CASE ch = "1" -> None
      [] ch \in PieceTypes -> Piece("b", ch)
      [] OTHER -> Piece("w", CHOOSE t \in PieceTypes : UpperCase[t] = ch)

\* chess.fen(): rows[1] is rank 8, rows[8] is rank 1; then the side to move
Fen(chess) ==
    [rows |-> [i \in 1..8 |->
                 [f \in 1..8 |-> FenSymbol(chess.board[SquareAt(f - 1, 9 - i)])]],
     turn |-> chess.turn]

CountSymbol(rows, ch) ==
    Cardinality({<<i, f>> \in (1..8) \X (1..8) : rows[i][f] = ch})

\* validateFen: exactly one king of each colour, no pawn on rows[0], rows[7]
ValidateFen(fen) ==
    /\ CountSymbol(fen.rows, "K") = 1
    /\ CountSymbol(fen.rows, "k") = 1
    /\ \A f \in 1..8 : /\ fen.rows[1][f] \notin {"P", "p"}
                       /\ fen.rows[8][f] \notin {"P", "p"}

\* the position load(fen) builds
Load(fen) ==
    [board |-> [sq \in Squares |-> SymbolPiece(fen.rows[8 - Rank(sq)][File(sq) + 1])],
     turn |-> fen.turn]

\* faulty variant: the position is taken over without validation
NewChessUnchecked(fen) == [ok |-> TRUE, chess |-> Load(fen)]

\* new Chess(fen): ok = FALSE stands for the exception load() throws
NewChess(fen) ==
    IF ValidateFen(fen) THEN [ok |-> TRUE, chess |-> Load(fen)]
    ELSE [ok |-> FALSE, chess |-> Load(fen)]

Get(chess, sq) == chess.board[sq]

Remove(chess, sq) == [chess EXCEPT !.board[sq] = None]

\* put refuses a second king of a colour and leaves the board as it was
Put(chess, piece, sq) ==
    IF /\ piece.type = "k"
       /\ \E s \in Squares \ {sq} : chess.board[s] = piece
    THEN chess
    ELSE [chess EXCEPT !.board[sq] = piece]

----------------------------------------------------------------------------
(* chess.js: move({from, to}) *)

Sign(x) == IF x > 0 THEN 1 ELSE IF x < 0 THEN -1 ELSE 0

Max(x, y) == IF x >= y THEN x ELSE y

\* every square strictly between from and to (same line or diagonal) is empty
PathClear(board, from, to) ==
    LET df == File(to) - File(from)
        dr == Rank(to) - Rank(from)
    IN  \A i \in 1..(Max(Abs(df), Abs(dr)) - 1) :
            board[SquareAt(File(from) + i * Sign(df), Rank(from) + 1 + i * Sign(dr))] = None

PawnDir(color) == IF color = "w" THEN 1 ELSE -1

\* the piece on from attacks the square to
Attacks(board, from, to) ==
    LET t  == board[from].type
        df == File(to) - File(from)
        dr == Rank(to) - Rank(from)
        straight == (df = 0 \/ dr = 0) /\ from # to /\ PathClear(board, from, to)
        diagonal == Abs(df) = Abs(dr) /\ from # to /\ PathClear(board, from, to)
    IN  CASE t = "p" -> Abs(df) = 1 /\ dr = PawnDir(board[from].color)
          [] t = "n" -> {Abs(df), Abs(dr)} = {1, 2}
          [] t = "k" -> Max(Abs(df), Abs(dr)) = 1
          [] t = "r" -> straight
          [] t = "b" -> diagonal
          [] t = "q" -> straight \/ diagonal
          [] OTHER -> FALSE

\* the king of color stands on a square a piece of the other colour attacks
KingAttacked(board, color) ==
    \E k \in Squares :
        /\ board[k] = Piece(color, "k")
        /\ \E s \in Squares : /\ board[s].color = getOpponentColor(color)
                              /\ Attacks(board, s, k)

\* a move the generator produces for the side to move, before the king test
PseudoLegal(chess, from, to) ==
    LET board == chess.board
        us    == chess.turn
        df    == File(to) - File(from)
        dr    == Rank(to) - Rank(from)
        dir   == PawnDir(us)
    IN  /\ board[from].color = us
        /\ board[to].color # us
        /\ IF board[from].type = "p"
           THEN /\ Rank(to) \notin {0, 7}
                /\ \/ df = 0 /\ dr = dir /\ board[to] = None
                   \/ /\ df = 0 /\ dr = 2 * dir
                      /\ Rank(from) = (IF us = "w" THEN 1 ELSE 6)
                      /\ board[to] = None
                      /\ PathClear(board, from, to)
                   \/ Abs(df) = 1 /\ dr = dir /\ board[to] # None
           ELSE Attacks(board, from, to)

\* the position after the piece on from has gone to to
AfterMove(chess, from, to) ==
    [board |-> [chess.board EXCEPT ![to] = chess.board[from], ![from] = None],
     turn  |-> getOpponentColor(chess.turn)]

\* chess.move({from, to}): ok = FALSE stands for the 'Invalid move' exception
Move(chess, from, to) ==
    IF /\ PseudoLegal(chess, from, to)
       /\ ~KingAttacked(AfterMove(chess, from, to).board, chess.turn)
    THEN [ok |-> TRUE, chess |-> AfterMove(chess, from, to)]
    ELSE [ok |-> FALSE, chess |-> chess]

----------------------------------------------------------------------------
(* The action catalogue *)

ActionIds == {"snip", "rubberBand", "nuke", "jobApplication", "robotProxy",
              "swapPlaces", "shield", "empBlast", "lootDrop", "timeFreeze",
              "cloneRay", "spyDrone", "sniperShot", "puzzleTrap", "rocketBarrage"}

\* needsTarget of each catalogue entry
NeedsTarget(actionId) ==
    actionId \notin {"empBlast", "lootDrop", "timeFreeze", "spyDrone"}

\* squares of the pieces of one colour, as getPiecesOfColor collects them
getPiecesOfColor(chess, color) == {sq \in Squares : chess.board[sq].color = color}

\* the rolls drawn for Math.floor(Math.random() * 6) + 1, a value of 1..6:
\* the two faces at the threshold, the highest that spares the target and
\* the lowest that removes it
DieFaces == {3, 4}

\* the first square in scan order (rank 1..8, file a..h) of a set of squares
FirstSquare(S) == CHOOSE sq \in S : \A other \in S : sq <= other

\* Rocket Barrage's loop: the targets left to right, one roll each, the
\* target removed on a roll of 4, 5 or 6
RECURSIVE Barrage(_, _, _)
Barrage(chess, targetSquares, rolls) ==
    IF targetSquares = <<>> THEN chess
    ELSE Barrage(IF Head(rolls) >= 4 THEN Remove(chess, Head(targetSquares)) ELSE chess,
                 Tail(targetSquares), Tail(rolls))

\* validateTarget of the entry; args is the list of squares handed to it
validateTarget(actionId, gs, args) ==
    LET cp == gs.currentPlayer
        p1 == Get(gs.chess, args[1])
        p2 == Get(gs.chess, args[2])
    IN  CASE actionId = "snip" -> p1.type = "p" /\ p1.color # cp
          [] actionId = "rubberBand" -> (p1 = None) \/ p1.color # cp
          [] actionId = "nuke" ->
                /\ File(args[1]) >= 0 /\ File(args[1]) <= 6
                /\ Rank(args[1]) >= 0 /\ Rank(args[1]) <= 6
          [] actionId \in {"jobApplication", "robotProxy", "shield"} -> p1.color = cp
          [] actionId = "swapPlaces" ->
                /\ p1.color = cp /\ p2.color = cp
                /\ p1.type # "k" /\ p2.type # "k"
          [] actionId = "cloneRay" -> p1.color = cp /\ p1.type # "k" /\ p2 = None
          [] actionId = "sniperShot" ->
                /\ p1 # None /\ p1.color # cp
                /\ \E sq \in getPiecesOfColor(gs.chess, cp) :
                       getSquareDistance(sq, args[1]) >= 3
          [] actionId = "puzzleTrap" -> p1 = None
          [] actionId = "rocketBarrage" ->
                /\ Len(args) <= 3
                /\ \A i \in 1..Len(args) :
                       /\ Get(gs.chess, args[i]) # None
                       /\ Get(gs.chess, args[i]).color # cp
          [] OTHER -> TRUE

\* the entries whose execute begins with new Chess(gameState.chess.fen())
CopiesBoard(actionId) ==
    actionId \in {"snip", "nuke", "jobApplication", "robotProxy", "swapPlaces",
                  "cloneRay", "sniperShot", "rocketBarrage"}

\* faulty variant: the block reaches down and left of the anchor
NukeBlockDownLeft(centerSquare) ==
    {SquareAt(f, r + 1) : f \in (File(centerSquare) - 1)..File(centerSquare),
                          r \in (Rank(centerSquare) - 1)..Rank(centerSquare)} \cap Squares

\* the squares of the 2x2 block Nuke clears, anchored at its lower left corner
NukeBlock(centerSquare) ==
    {SquareAt(f, r + 1) : f \in File(centerSquare)..(File(centerSquare) + 1),
                          r \in Rank(centerSquare)..(Rank(centerSquare) + 1)}

\* faulty variant: every opponent piece of the chosen type is removed
RobotTargetsAll(chess, pilotPiece) ==
    LET opp == getPiecesOfColor(chess, getOpponentColor(pilotPiece.color))
        OfType(t) == {sq \in opp : chess.board[sq].type = t}
    IN  IF OfType(pilotPiece.type) # {} THEN OfType(pilotPiece.type)
        ELSE IF OfType("p") # {} THEN OfType("p")
        ELSE IF OfType("q") # {} THEN OfType("q")
        ELSE OfType("k")

\* the opponent piece Robot Proxy removes: the first of the pilot's type,
\* else the first pawn, else the first queen, else the first king
RobotTargets(chess, pilotPiece) ==
    LET opp == getPiecesOfColor(chess, getOpponentColor(pilotPiece.color))
        OfType(t) == {sq \in opp : chess.board[sq].type = t}
    IN  IF OfType(pilotPiece.type) # {} THEN {FirstSquare(OfType(pilotPiece.type))}
        ELSE IF OfType("p") # {} THEN {FirstSquare(OfType("p"))}
        ELSE IF OfType("q") # {} THEN {FirstSquare(OfType("q"))}
        ELSE IF OfType("k") # {} THEN {FirstSquare(OfType("k"))}
        ELSE {}

\* faulty variant: the piece is moved to the target square instead of duplicated
cloneRayMoves(newChess, sourceSquare, targetSquare) ==
    IF Get(newChess, sourceSquare) # None
    THEN Remove(Put(newChess, Get(newChess, sourceSquare), targetSquare), sourceSquare)
    ELSE newChess

\* Clone Ray's execute on the copy
cloneRayExecute(newChess, sourceSquare, targetSquare) ==
    IF Get(newChess, sourceSquare) # None
    THEN Put(newChess, Get(newChess, sourceSquare), targetSquare)
    ELSE newChess

\* the chess position execute returns; newChess is the copy it works on and
\* rolls[i] is the die rolled for the i-th Rocket Barrage target
executeBoard(actionId, gs, newChess, args, rolls) ==
    LET cp == gs.currentPlayer
    IN  CASE actionId \in {"snip", "jobApplication", "sniperShot"} ->
                Remove(newChess, args[1])
          [] actionId = "nuke" ->
                [newChess EXCEPT !.board =
                    [sq \in Squares |->
                        IF /\ sq \in NukeBlock(args[1])
                           /\ newChess.board[sq] # None
                           /\ newChess.board[sq].color # cp
                        THEN None ELSE newChess.board[sq]]]
          [] actionId = "robotProxy" ->
                IF Get(newChess, args[1]) = None THEN gs.chess
                ELSE [newChess EXCEPT !.board =
                        [sq \in Squares |->
                            IF sq \in RobotTargets(newChess, Get(newChess, args[1]))
                            THEN None ELSE newChess.board[sq]]]
          [] actionId = "swapPlaces" ->
                LET piece1 == Get(newChess, args[1])
                    piece2 == Get(newChess, args[2])
                IN  IF piece1 # None /\ piece2 # None
                    THEN Put(Put(Remove(Remove(newChess, args[1]), args[2]),
                                 piece1, args[2]), piece2, args[1])
                    ELSE newChess
          [] actionId = "cloneRay" -> cloneRayExecute(newChess, args[1], args[2])
          [] actionId = "rocketBarrage" -> Barrage(newChess, args, rolls)
          [] OTHER -> gs.chess

----------------------------------------------------------------------------
(* The hook: useChessGame *)

CREATIVE_PHASE_THRESHOLD == 20

NoMove == [from |-> -1, to |-> -1]     \* lastMove: null

\* the initial GameState, also the one resetGame installs
NewGameState ==
    [chess         |-> DefaultPosition,
     currentPlayer |-> "w",
     phase         |-> "standard",
     halfMoves     |-> 0,
     gameOver      |-> FALSE,
     winner        |-> "none",
     lastMove      |-> NoMove]

\* every catalogue entry unused
NewRegistry == [a \in ActionIds |-> FALSE]

PieceCount(chess, color) == Cardinality(getPiecesOfColor(chess, color))

checkWinCondition(chess) ==
    IF PieceCount(chess, "w") = 0 THEN [gameOver |-> TRUE, winner |-> "b"]
    ELSE IF PieceCount(chess, "b") = 0 THEN [gameOver |-> TRUE, winner |-> "w"]
    ELSE [gameOver |-> FALSE, winner |-> "none"]

\* faulty variant: the threshold compared with > instead of >=
PhaseForLate(newHalfMoves) ==
    IF newHalfMoves > CREATIVE_PHASE_THRESHOLD THEN "creative" ELSE "standard"

\* the phase makeMove stores with the new half-move count
PhaseFor(newHalfMoves) ==
    IF newHalfMoves >= CREATIVE_PHASE_THRESHOLD THEN "creative" ELSE "standard"

\* faulty variant: the phase is taken from the half-move count before the move
MovedStatePhaseBefore(gs, newChess, from, to) ==
    [gs EXCEPT !.chess = newChess,
               !.currentPlayer = newChess.turn,
               !.phase = PhaseFor(gs.halfMoves),
               !.halfMoves = gs.halfMoves + 1,
               !.lastMove = [from |-> from, to |-> to],
               !.gameOver = checkWinCondition(newChess).gameOver,
               !.winner = checkWinCondition(newChess).winner]

\* the GameState makeMove stores after an accepted move
MovedState(gs, newChess, from, to) ==
    LET newHalfMoves == gs.halfMoves + 1
        win == checkWinCondition(newChess)
    IN  [gs EXCEPT !.chess = newChess,
                   !.currentPlayer = newChess.turn,
                   !.phase = PhaseFor(newHalfMoves),
                   !.halfMoves = newHalfMoves,
                   !.lastMove = [from |-> from, to |-> to],
                   !.gameOver = win.gameOver,
                   !.winner = win.winner]

\* faulty variant: the win condition is not evaluated after an action
ActedStateNoEvaluation(gs, newChess) ==
    [gs EXCEPT !.chess = newChess,
               !.currentPlayer = IF gs.currentPlayer = "w" THEN "b" ELSE "w"]

\* the GameState executeAction stores after execute has returned newChess
ActedState(gs, newChess) ==
    LET win == checkWinCondition(newChess)
    IN  [gs EXCEPT !.chess = newChess,
                   !.gameOver = win.gameOver,
                   !.winner = win.winner,
                   !.currentPlayer = IF gs.currentPlayer = "w" THEN "b" ELSE "w"]

\* faulty variant: the action is not marked
MarkUsedNot(registry, actionId) == registry

\* the registry after actionId has been marked used
MarkUsed(registry, actionId) == [registry EXCEPT ![actionId] = TRUE]

\* faulty variant: the phase is not looked at
ActionRefusedUsedOnly(registry, gs, actionId) == registry[actionId]

\* executeAction's first test: the action is used, or the phase is not creative
ActionRefused(registry, gs, actionId) ==
    registry[actionId] \/ gs.phase # "creative"

\* faulty variant: a refused action is marked used all the same
RejectedMarksUsed(op, actionId, why) ==
    /\ lastOp' = [op |-> op, ok |-> FALSE, actionId |-> actionId,
                  player |-> gameState.currentPlayer, why |-> why, args |-> <<>>]
    /\ actionRegistry' = IF op = "executeAction"
                         THEN [actionRegistry EXCEPT ![actionId] = TRUE]
                         ELSE actionRegistry
    /\ UNCHANGED gameState

\* a call that returns false: nothing is stored
Rejected(op, actionId, why) ==
    /\ lastOp' = [op |-> op, ok |-> FALSE, actionId |-> actionId,
                  player |-> gameState.currentPlayer, why |-> why, args |-> <<>>]
    /\ UNCHANGED <<gameState, actionRegistry>>

\* copy is the result of new Chess(gameState.chess.fen())
makeMove(from, to, copy) ==
    LET move == Move(copy.chess, from, to)
    IN  IF ~copy.ok THEN Rejected("makeMove", "-", "exception")
        ELSE IF ~move.ok THEN Rejected("makeMove", "-", "illegalMove")
        ELSE /\ gameState' = MovedState(gameState, move.chess, from, to)
             /\ lastOp' = [op |-> "makeMove", ok |-> TRUE, actionId |-> "-",
                           player |-> gameState.currentPlayer, why |-> "-",
                           args |-> <<>>]
             /\ UNCHANGED actionRegistry

\* copy is the result of new Chess(gameState.chess.fen()), which the entries
\* that change the board evaluate first in execute
executeAction(actionId, args, copy) ==
        IF ActionRefused(actionRegistry, gameState, actionId)
        THEN Rejected("executeAction", actionId, "usedOrPhase")
        ELSE IF NeedsTarget(actionId) /\ ~validateTarget(actionId, gameState, args)
        THEN Rejected("executeAction", actionId, "invalidTarget")
        ELSE IF CopiesBoard(actionId) /\ ~copy.ok
        THEN Rejected("executeAction", actionId, "exception")
        ELSE \E rolls \in [1..Len(args) -> DieFaces] :
               /\ gameState' = ActedState(gameState,
                                   executeBoard(actionId, gameState, copy.chess, args, rolls))
               /\ actionRegistry' = MarkUsed(actionRegistry, actionId)
               /\ lastOp' = [op |-> "executeAction", ok |-> TRUE, actionId |-> actionId,
                             player |-> gameState.currentPlayer, why |-> "-",
                             args |-> args]

\* faulty variant: the registry is kept over a reset
resetGameKeepsRegistry ==
    /\ gameState' = NewGameState
    /\ UNCHANGED actionRegistry
    /\ lastOp' = [op |-> "resetGame", ok |-> TRUE, actionId |-> "-",
                  player |-> gameState.currentPlayer, why |-> "-", args |-> <<>>]

\* the hook's getAvailableActions: the entries whose registry flag is not set
getAvailableActions(registry) == {a \in ActionIds : ~registry[a]}

\* the used field of the catalogue entries: false in every entry, and no
\* statement of the program assigns to it
EntryUsed == [a \in ActionIds |-> FALSE]

\* the catalogue's own getAvailableActions: the entries whose used field is
\* not set
getAvailableActionsOfCatalogue == {a \in ActionIds : ~EntryUsed[a]}

resetGame ==
    /\ gameState' = NewGameState
    /\ actionRegistry' = NewRegistry
    /\ lastOp' = [op |-> "resetGame", ok |-> TRUE, actionId |-> "-",
                  player |-> gameState.currentPlayer, why |-> "-", args |-> <<>>]

----------------------------------------------------------------------------
(* The game from a new board *)

UsedCount == Cardinality({a \in ActionIds : actionRegistry[a]})

\* the squares moves are drawn from: the king's knights and their squares
MoveSquares == {SquareAt(6, 1), SquareAt(5, 3), SquareAt(6, 8), SquareAt(5, 6)}

\* the squares action targets are drawn from: a2 (a white pawn), a7 (a black
\* pawn) and h4 (empty, and on the last file)
TargetSquares == {SquareAt(0, 2), SquareAt(0, 7), SquareAt(7, 4)}

\* number of squares each entry's validateTarget and execute read
Arity(actionId) ==
    IF ~NeedsTarget(actionId) THEN 0
    ELSE IF actionId \in {"swapPlaces", "cloneRay"} THEN 2 ELSE 1

SeqsOf(S, n) == [1..n -> S]

\* the squares Rocket Barrage target lists are drawn from: a2, a7
RocketSquares == {SquareAt(0, 2), SquareAt(0, 7)}

\* the ids Job Application is asked to boost (its actionToBoost argument)
BoostIds == {"snip", "shield"}

\* the argument lists an action is called with: squares of S, for Rocket
\* Barrage a list of up to maxTargets squares of R, for Job Application a
\* square of S and the id of the action to boost
ArgsFor(actionId, S, R, maxTargets) ==
    IF actionId = "rocketBarrage" THEN UNION {SeqsOf(R, n) : n \in 0..maxTargets}
    ELSE IF actionId = "jobApplication" THEN {<<sq, id>> : sq \in S, id \in BoostIds}
    ELSE SeqsOf(S, Arity(actionId))

\* no handler has been called yet
NoOp == [op |-> "init", ok |-> TRUE, actionId |-> "-", player |-> "w", why |-> "-",
         args |-> <<>>]

Init ==
    /\ gameState = NewGameState
    /\ actionRegistry = NewRegistry
    /\ lastOp = NoOp

\* one call of makeMove with squares of S, while fewer than cap half-moves
\* have been played
MoveStep(S, cap) ==
    /\ gameState.halfMoves < cap
    /\ LET copy == NewChess(Fen(gameState.chess))
       IN  \E from \in S, to \in S : makeMove(from, to, copy)

\* one call of executeAction with an id of Ids and targets of S (Rocket
\* Barrage: up to maxTargets of R); once maxUsed actions are used only used
\* ones are tried
ActionStep(Ids, S, R, maxTargets, maxUsed) ==
    LET copy == NewChess(Fen(gameState.chess))
    IN  \E actionId \in {a \in Ids : UsedCount < maxUsed \/ actionRegistry[a]} :
          \E args \in ArgsFor(actionId, S, R, maxTargets) :
             executeAction(actionId, args, copy)

MakeMove == MoveStep(MoveSquares, MaxHalfMoves)

ExecuteAction ==
    ActionStep(ActionIds, TargetSquares, RocketSquares, MaxTargets, MaxUsed)

ResetGame == resetGame

Next == MakeMove \/ ExecuteAction \/ ResetGame

Spec == Init /\ [][Next]_vars

----------------------------------------------------------------------------
(* The game from late positions.  Each is a legal chess position with white *)
(* to move that play from the starting position reaches by moves alone, so  *)
(* the hook holds it with an even half-move count past the threshold, every *)
(* action unused and currentPlayer equal to the engine's side to move.      *)

\* half-moves played before the late positions
MidHalfMoves == 3 * CREATIVE_PHASE_THRESHOLD

PositionOf(placed) ==
    [board |-> [sq \in Squares |->
                  IF \E e \in placed : e[1] = sq
                  THEN (CHOOSE e \in placed : e[1] = sq)[2] ELSE None],
     turn |-> "w"]

\* white: king b1, rook a1; black: king a8, pawn a7
RookEnding ==
    PositionOf({<<SquareAt(1, 1), Piece("w", "k")>>, <<SquareAt(0, 1), Piece("w", "r")>>,
                <<SquareAt(0, 8), Piece("b", "k")>>, <<SquareAt(0, 7), Piece("b", "p")>>})

\* white: king a1; black: king a8, pawn a7
BareKing ==
    PositionOf({<<SquareAt(0, 1), Piece("w", "k")>>,
                <<SquareAt(0, 8), Piece("b", "k")>>, <<SquareAt(0, 7), Piece("b", "p")>>})

MidPositions == {RookEnding, BareKing}

\* a1, b1, a7, a8
MidMoveSquares == {SquareAt(0, 1), SquareAt(1, 1), SquareAt(0, 7), SquareAt(0, 8)}

\* a1, b1, a7, a8
MidTargetSquares == {SquareAt(0, 1), SquareAt(1, 1), SquareAt(0, 7), SquareAt(0, 8)}

\* a1, a8
MidRocketSquares == {SquareAt(0, 1), SquareAt(0, 8)}

InitMid ==
    /\ \E position \in MidPositions :
         gameState = [NewGameState EXCEPT !.chess = position,
                                          !.phase = PhaseFor(MidHalfMoves),
                                          !.halfMoves = MidHalfMoves]
    /\ actionRegistry = NewRegistry
    /\ lastOp = NoOp

MidMakeMove == MoveStep(MidMoveSquares, MidHalfMoves + MaxMidMoves)

\* the actions tried from a late position: every entry whose execute removes
\* pieces, and Shield for the ones that return the state as it is
MidActionIds == {"snip", "nuke", "jobApplication", "robotProxy", "sniperShot",
                 "rocketBarrage", "shield"}

MidExecuteAction ==
    ActionStep(MidActionIds, MidTargetSquares, MidRocketSquares, MaxMidTargets, MaxMidUsed)

MidResetGame == resetGame

NextMid == MidMakeMove \/ MidExecuteAction \/ MidResetGame

SpecMid == InitMid /\ [][NextMid]_vars

----------------------------------------------------------------------------
(* The game from the same late positions, with the four entries whose       *)
(* description names a lasting effect (Shield, Rubber-Band Shot, Time       *)
(* Freeze, Puzzle Trap) and Nuke as the action that removes pieces.         *)

StatusActionIds == {"shield", "rubberBand", "timeFreeze", "puzzleTrap", "nuke"}

StatusMakeMove == MoveStep(MidMoveSquares, MidHalfMoves + MaxMidMoves)

StatusExecuteAction ==
    ActionStep(StatusActionIds, MidTargetSquares, MidRocketSquares, MaxMidTargets, MaxMidUsed)

StatusResetGame == resetGame

NextStatus == StatusMakeMove \/ StatusExecuteAction \/ StatusResetGame

SpecStatus == InitMid /\ [][NextStatus]_vars

----------------------------------------------------------------------------
(* The win evaluator on its own: checkWinCondition applied to boards that   *)
(* hold up to three pieces, the empty board among them.                     *)

\* a1, d4, h8
EvalSquares == {SquareAt(0, 1), SquareAt(3, 4), SquareAt(7, 8)}

EvalContents == {None, Piece("w", "p"), Piece("w", "k"), Piece("b", "p"), Piece("b", "q")}

EvalPositions ==
    {[board |-> [sq \in Squares |-> IF sq \in EvalSquares THEN f[sq] ELSE None],
      turn |-> "w"] : f \in [EvalSquares -> EvalContents]}

InitEval ==
    /\ \E position \in EvalPositions :
         gameState = [NewGameState EXCEPT !.chess = position]
    /\ actionRegistry = NewRegistry
    /\ lastOp = NoOp

\* checkWinCondition(gameState.chess), its result stored as the hook stores it
Evaluate ==
    /\ lastOp.op = "init"
    /\ gameState' = [gameState EXCEPT
                       !.gameOver = checkWinCondition(gameState.chess).gameOver,
                       !.winner = checkWinCondition(gameState.chess).winner]
    /\ lastOp' = [lastOp EXCEPT !.op = "checkWinCondition"]
    /\ UNCHANGED actionRegistry

NextEval == Evaluate

SpecEval == InitEval /\ [][NextEval]_vars

----------------------------------------------------------------------------
(* The catalogue entries on their own: validateTarget and execute applied   *)
(* to game states of the creative phase.  Both kings stand in their         *)
(* corners, b1 is empty or holds a knight or queen, b2 and c2 are empty or  *)
(* hold a knight, queen or pawn, and either colour is the one to act.       *)
(* execute is applied where validateTarget accepts, which is the only way   *)
(* the hook calls it.                                                       *)

\* b1, b2, c2
CatFreeSquares == {SquareAt(1, 1), SquareAt(1, 2), SquareAt(2, 2)}

\* what a free square may hold; no pawn on the first rank
CatContents(sq) ==
    {None, Piece("w", "n"), Piece("b", "n"), Piece("b", "q")}
      \cup (IF Rank(sq) = 0 THEN {} ELSE {Piece("w", "p"), Piece("b", "p")})

\* white king a1, black king h8, and f on the free squares
CatPosition(f) ==
    [board |-> [sq \in Squares |->
                  CASE sq = SquareAt(0, 1) -> Piece("w", "k")
                    [] sq = SquareAt(7, 8) -> Piece("b", "k")
                    [] sq \in CatFreeSquares -> f[sq]
                    [] OTHER -> None],
     turn |-> "w"]

CatPositions ==
    LET Any == UNION {CatContents(sq) : sq \in CatFreeSquares}
    IN  {CatPosition(f) : f \in {g \in [CatFreeSquares -> Any] :
                                   \A sq \in CatFreeSquares : g[sq] \in CatContents(sq)}}

\* a1, b1, b2, c2, g7 (the last anchor of a block on the board), h1 (off the
\* board by its file), a8 (off the board by its rank)
CatTargetSquares == {SquareAt(0, 1), SquareAt(1, 1), SquareAt(1, 2), SquareAt(2, 2),
                     SquareAt(6, 7), SquareAt(7, 1), SquareAt(0, 8)}

\* a1, b2, c2
CatRocketSquares == {SquareAt(0, 1), SquareAt(1, 2), SquareAt(2, 2)}

\* the entries applied on their own
CatActionIds == {"nuke", "sniperShot", "rocketBarrage", "robotProxy", "rubberBand",
                 "jobApplication", "swapPlaces"}

InitCat ==
    /\ \E position \in CatPositions, color \in Colors :
         gameState = [NewGameState EXCEPT !.chess = position,
                                          !.currentPlayer = color,
                                          !.phase = PhaseFor(MidHalfMoves),
                                          !.halfMoves = MidHalfMoves]
    /\ actionRegistry = NewRegistry
    /\ lastOp = NoOp

\* entry.validateTarget(gameState, ...args); ok is the value it returns
CatValidateTarget ==
    /\ lastOp.op = "init"
    /\ \E actionId \in CatActionIds :
         \E args \in ArgsFor(actionId, CatTargetSquares, CatRocketSquares, MaxTargets) :
            lastOp' = [op |-> "validateTarget",
                       ok |-> validateTarget(actionId, gameState, args),
                       actionId |-> actionId, player |-> gameState.currentPlayer,
                       why |-> "-", args |-> args]
    /\ UNCHANGED <<gameState, actionRegistry>>

\* entry.execute(gameState, ...args); the state it returns becomes gameState
CatExecute ==
    /\ lastOp.op = "init"
    /\ LET copy == NewChess(Fen(gameState.chess))
       IN  \E actionId \in CatActionIds :
             \E args \in ArgsFor(actionId, CatTargetSquares, CatRocketSquares, MaxTargets) :
               /\ validateTarget(actionId, gameState, args)
               /\ IF CopiesBoard(actionId) /\ ~copy.ok
                  THEN /\ lastOp' = [op |-> "execute", ok |-> FALSE, actionId |-> actionId,
                                     player |-> gameState.currentPlayer,
                                     why |-> "exception", args |-> args]
                       /\ UNCHANGED gameState
                  ELSE \E rolls \in [1..Len(args) -> DieFaces] :
                         /\ gameState' = [gameState EXCEPT !.chess =
                               executeBoard(actionId, gameState, copy.chess, args, rolls)]
                         /\ lastOp' = [op |-> "execute", ok |-> TRUE, actionId |-> actionId,
                                       player |-> gameState.currentPlayer,
                                       why |-> "-", args |-> args]
    /\ UNCHANGED actionRegistry

NextCat == CatValidateTarget \/ CatExecute

SpecCat == InitCat /\ [][NextCat]_vars

----------------------------------------------------------------------------
(* Claims *)

Board == gameState.chess

\* remaining uses of an action: 1 while unused, 0 once used
Uses(registry, actionId) == IF registry[actionId] THEN 0 ELSE 1

Succeeded(op) == lastOp.op = op /\ lastOp.ok

\* the step just taken was a call of op that returned true
SucceedsNow(op) == lastOp'.op = op /\ lastOp'.ok

\* C1: from a new game the phase is standard while halfMoves is below 20,
\* is creative from the step that brings halfMoves to 20, and once creative
\* stays creative under every step but resetGame.
C1_PhaseAtThreshold ==
    [][lastOp'.op # "resetGame" =>
         /\ gameState'.halfMoves < CREATIVE_PHASE_THRESHOLD => gameState'.phase = "standard"
         /\ gameState'.halfMoves >= CREATIVE_PHASE_THRESHOLD => gameState'.phase = "creative"
         /\ gameState.phase = "creative" => gameState'.phase = "creative"]_vars

\* the twentieth move has just been made and the phase is creative
C1_Witness ==
    /\ Succeeded("makeMove")
    /\ gameState.halfMoves = CREATIVE_PHASE_THRESHOLD
    /\ gameState.phase = "creative"

\* C2: a call of executeAction made while the phase is not creative, or for
\* an action with no use left, returns false and leaves the game state and
\* the registry as they were.
C2_RefusedLeavesState ==
    [][(/\ lastOp'.op = "executeAction"
        /\ \/ gameState.phase # "creative"
           \/ Uses(actionRegistry, lastOp'.actionId) = 0)
       => /\ ~lastOp'.ok
          /\ UNCHANGED <<gameState, actionRegistry>>]_vars

\* an action was refused in the standard phase, after some moves
C2_Witness ==
    /\ lastOp.op = "executeAction" /\ ~lastOp.ok
    /\ gameState.phase = "standard"
    /\ gameState.halfMoves > 0

\* C3: every action starts with 1 use; a successful call takes exactly one
\* use of that action and of no other; uses stay within 0..1 and come back
\* only by resetGame; a call for an action without a use left is refused
\* whichever colour is to act.
C3_SharedUses ==
    /\ \A a \in ActionIds : Uses(actionRegistry, a) = 1
    /\ [][/\ \A a \in ActionIds : Uses(actionRegistry', a) \in {0, 1}
          /\ SucceedsNow("executeAction") =>
               /\ Uses(actionRegistry, lastOp'.actionId) = 1
               /\ Uses(actionRegistry', lastOp'.actionId) = 0
               /\ \A a \in ActionIds \ {lastOp'.actionId} :
                      actionRegistry'[a] = actionRegistry[a]
          /\ lastOp'.op # "resetGame" =>
               \A a \in ActionIds : Uses(actionRegistry', a) <= Uses(actionRegistry, a)
          /\ \A c \in Colors :
               (/\ lastOp'.op = "executeAction"
                /\ gameState.currentPlayer = c
                /\ Uses(actionRegistry, lastOp'.actionId) = 0) => ~lastOp'.ok]_vars

\* at half-move 20 white is the first to act; here one action is used, so
\* white used it, and black's call of the same action has just been refused
C3_Witness ==
    /\ gameState.halfMoves = CREATIVE_PHASE_THRESHOLD
    /\ UsedCount = 1
    /\ lastOp.op = "executeAction" /\ ~lastOp.ok
    /\ lastOp.player = "b"
    /\ actionRegistry[lastOp.actionId]

\* C4 (as claimed): every successful makeMove or executeAction leaves the
\* other colour as currentPlayer.
C4_EveryTurnSwitchesColor ==
    [][(SucceedsNow("makeMove") \/ SucceedsNow("executeAction"))
       => gameState'.currentPlayer # gameState.currentPlayer]_vars

\* C5 (as claimed): a successful executeAction raises halfMoves by one, as a
\* successful makeMove does.
C5_ActionCountsAsHalfMove ==
    [][(SucceedsNow("makeMove") \/ SucceedsNow("executeAction"))
       => gameState'.halfMoves = gameState.halfMoves + 1]_vars

\* C6: after a successful makeMove or executeAction, gameOver holds exactly
\* when a colour has no piece on the board, and when exactly one colour has
\* none the other colour is the winner.
C6_WinDeclared ==
    (Succeeded("makeMove") \/ Succeeded("executeAction")) =>
        /\ gameState.gameOver <=>
              (PieceCount(Board, "w") = 0 \/ PieceCount(Board, "b") = 0)
        /\ \A c \in Colors :
              (PieceCount(Board, c) = 0 /\ PieceCount(Board, getOpponentColor(c)) > 0)
                 => gameState.winner = getOpponentColor(c)

\* Job Application has just removed white's last piece and black has won
C6_Witness ==
    /\ Succeeded("executeAction")
    /\ lastOp.actionId = "jobApplication"
    /\ PieceCount(Board, "w") = 0
    /\ gameState.gameOver /\ gameState.winner = "b"

\* C7 (as claimed): the win evaluator reports no winner for a board on which
\* neither colour has a piece.
C7_EmptyBoardIsDraw ==
    (/\ lastOp.op = "checkWinCondition"
     /\ PieceCount(Board, "w") = 0
     /\ PieceCount(Board, "b") = 0) => gameState.winner = "none"

\* C8: in no reachable state are both colours without a piece.
C8_NeverBothEmpty ==
    ~(PieceCount(Board, "w") = 0 /\ PieceCount(Board, "b") = 0)

\* one colour has no piece left, and a call of an action that removes pieces
\* of the other, with a valid target, has just failed on copying the board
C8_Witness ==
    /\ lastOp.op = "executeAction" /\ ~lastOp.ok
    /\ lastOp.why = "exception"
    /\ lastOp.actionId \in {"nuke", "rocketBarrage", "jobApplication"}
    /\ gameState.gameOver
    /\ PieceCount(Board, getOpponentColor(lastOp.player)) > 0
    /\ PieceCount(Board, lastOp.player) = 0

C10_RejectedChangesNothing ==
    [][(lastOp'.op \in {"makeMove", "executeAction"} /\ ~lastOp'.ok)
       => UNCHANGED <<gameState, actionRegistry>>]_vars

\* Snip has just been refused for its target in the creative phase and is
\* still unused
C10_Witness ==
    /\ lastOp.op = "executeAction" /\ ~lastOp.ok
    /\ lastOp.actionId = "snip"
    /\ lastOp.why = "invalidTarget"
    /\ gameState.phase = "creative"
    /\ Uses(actionRegistry, "snip") = 1

\* the fields of GameState (selectedSquare and validMoves, which only the
\* board view reads, are left out): none of them holds a status effect
GameStateFields == {"chess", "currentPlayer", "phase", "halfMoves", "gameOver",
                    "winner", "lastMove"}

\* C11: a new game, and the state after resetGame from any reachable state,
\* has halfMoves 0, the standard phase, gameOver false with no winner, every
\* action with 1 use left, and no status effect (the state has no field that
\* could hold one).
C11_NewGameAndReset ==
    lastOp.op \in {"init", "resetGame"} =>
        /\ gameState.halfMoves = 0
        /\ gameState.phase = "standard"
        /\ ~gameState.gameOver /\ gameState.winner = "none"
        /\ \A a \in ActionIds : Uses(actionRegistry, a) = 1
        /\ DOMAIN gameState = GameStateFields
        /\ Board = DefaultPosition

\* resetGame has just been called in a game in which black was to act
C11_Witness ==
    /\ Succeeded("resetGame")
    /\ lastOp.player = "b"
    /\ gameState.halfMoves = 0

\* the last call carried out the action id
Acted(id) == Succeeded("executeAction") /\ lastOp.actionId = id

\* the step just taken carried out the action id
ActsNow(id) == SucceedsNow("executeAction") /\ lastOp'.actionId = id

\* the squares a call of a removing action aims at: Nuke's block, else the
\* squares of its argument list
AimedAt(id, args) ==
    IF id = "nuke" THEN NukeBlock(args[1]) ELSE {args[i] : i \in 1..Len(args)}

\* C12 (as claimed): when Shield has just been applied to a piece, a Snip,
\* Nuke, Sniper Shot or Rocket Barrage carried out next and aimed at that
\* piece leaves it on the board.
C12_ShieldedPieceSurvives ==
    [][(/\ Acted("shield")
        /\ \E id \in {"snip", "nuke", "sniperShot", "rocketBarrage"} : ActsNow(id)
        /\ lastOp.args[1] \in AimedAt(lastOp'.actionId, lastOp'.args))
       => gameState'.chess.board[lastOp.args[1]] = Get(Board, lastOp.args[1])]_vars

\* C13 (as claimed): when Rubber-Band Shot has just been applied to a piece,
\* the makeMove called next from that piece's square is refused.
C13_FrozenPieceStays ==
    [][(/\ Acted("rubberBand")
        /\ Get(Board, lastOp.args[1]) # None
        /\ lastOp'.op = "makeMove"
        /\ gameState'.lastMove.from = lastOp.args[1])
       => ~lastOp'.ok]_vars

\* C14 (as claimed): when Time Freeze has just been carried out, the
\* executeAction the other colour calls next is refused and changes nothing.
C14_TimeFreezeBlocksActions ==
    [][(/\ Acted("timeFreeze")
        /\ lastOp'.op = "executeAction"
        /\ lastOp'.player = getOpponentColor(lastOp.player))
       => /\ ~lastOp'.ok
          /\ UNCHANGED <<gameState, actionRegistry>>]_vars

\* C15 (as claimed): when Puzzle Trap has just armed an empty square, a piece
\* of the other colour that the next makeMove brings onto that square is
\* taken off the board.
C15_TrapTakesThePiece ==
    [][(/\ Acted("puzzleTrap")
        /\ SucceedsNow("makeMove")
        /\ gameState'.lastMove.to = lastOp.args[1]
        /\ Get(Board, gameState'.lastMove.from).color = getOpponentColor(lastOp.player))
       => gameState'.chess.board[lastOp.args[1]] = None]_vars

\* C16 (as claimed): a Job Application that is carried out takes the chosen
\* piece off the board and raises the uses left of the action named as its
\* second argument by 2.
C16_JobApplicationGrantsUses ==
    [][ActsNow("jobApplication") =>
         /\ Get(gameState'.chess, lastOp'.args[1]) = None
         /\ Uses(actionRegistry', lastOp'.args[2])
              = Uses(actionRegistry, lastOp'.args[2]) + 2]_vars

\* Manhattan distance of two squares, from their file and rank numbers
Manhattan(a, b) == Abs(File(a) - File(b)) + Abs(Rank(a) - Rank(b))

\* C17: Sniper Shot's validateTarget accepts a square exactly when it holds a
\* piece of the other colour and some piece of the colour that acts stands at
\* Manhattan distance 3 or more from it; with every own piece at distance 2
\* or less it refuses, enemy piece or not.
C17_SniperValidate ==
    (lastOp.op = "validateTarget" /\ lastOp.actionId = "sniperShot") =>
        LET target == lastOp.args[1]
            own    == {sq \in Squares : Get(Board, sq).color = lastOp.player}
        IN  lastOp.ok <=>
              /\ Get(Board, target).color = getOpponentColor(lastOp.player)
              /\ \E sq \in own : Manhattan(sq, target) >= 3

\* refused for an enemy piece on b2: white's pieces are the king on a1 and at
\* most a knight on c2, all within distance 2
C17_Witness ==
    /\ lastOp.op = "validateTarget" /\ lastOp.actionId = "sniperShot"
    /\ ~lastOp.ok
    /\ lastOp.player = "w"
    /\ lastOp.args = <<SquareAt(1, 2)>>
    /\ Get(Board, SquareAt(1, 2)).color = "b"

\* C18 (as claimed): Rocket Barrage's validateTarget accepts a list exactly
\* when it names 1 to 3 squares that all hold pieces of the other colour.
C18_RocketValidate ==
    (lastOp.op = "validateTarget" /\ lastOp.actionId = "rocketBarrage") =>
        (lastOp.ok <=>
           /\ Len(lastOp.args) \in 1..3
           /\ \A i \in 1..Len(lastOp.args) :
                Get(Board, lastOp.args[i]).color = getOpponentColor(lastOp.player))

\* C19 (as claimed): Rocket Barrage's execute is deterministic: from one game
\* state and one target list it ends in one board.  The game state holds no
\* seed and execute is handed none, so the board it returns is to be the same
\* whatever rolls are drawn.
C19_RocketDeterministic ==
    [][(lastOp'.op = "execute" /\ lastOp'.ok /\ lastOp'.actionId = "rocketBarrage")
       => \A rolls \in [1..Len(lastOp'.args) -> DieFaces] :
             gameState'.chess = Barrage(Board, lastOp'.args, rolls)]_vars

\* the squares of the 2x2 block whose lower left corner is the anchor
InBlock(sq, anchor) ==
    /\ File(sq) \in {File(anchor), File(anchor) + 1}
    /\ Rank(sq) \in {Rank(anchor), Rank(anchor) + 1}

\* C20: Nuke's validateTarget accepts an anchor exactly when its file and
\* rank numbers are both in 0..6; execute empties the squares of the anchor's
\* 2x2 block that hold a piece of the other colour and changes nothing else:
\* own pieces in the block, every square outside it and the rest of the game
\* state stay as they were.
C20_NukeBlock ==
    [][/\ (lastOp'.op = "validateTarget" /\ lastOp'.actionId = "nuke") =>
            (lastOp'.ok <=> /\ File(lastOp'.args[1]) \in 0..6
                            /\ Rank(lastOp'.args[1]) \in 0..6)
       /\ (lastOp'.op = "execute" /\ lastOp'.ok /\ lastOp'.actionId = "nuke") =>
            /\ \A sq \in Squares :
                 Get(gameState'.chess, sq) =
                    IF /\ InBlock(sq, lastOp'.args[1])
                       /\ Get(Board, sq).color = getOpponentColor(gameState.currentPlayer)
                    THEN None ELSE Get(Board, sq)
            /\ gameState' = [gameState EXCEPT !.chess.board = gameState'.chess.board]]_vars

\* white's Nuke anchored at g7 has taken the black king off h8; white's own
\* king still stands on a1
C20_Witness ==
    /\ lastOp.op = "execute" /\ lastOp.ok /\ lastOp.actionId = "nuke"
    /\ lastOp.player = "w"
    /\ lastOp.args = <<SquareAt(6, 7)>>
    /\ Get(Board, SquareAt(7, 8)) = None
    /\ Get(Board, SquareAt(0, 1)) = Piece("w", "k")

\* the squares whose content differs between two positions
Changed(before, after) == {sq \in Squares : Get(before, sq) # Get(after, sq)}

\* the types of the pieces of a colour on a position
TypesOf(chess, color) == {Get(chess, sq).type : sq \in getPiecesOfColor(chess, color)}

\* C21: Robot Proxy's execute on an own piece of type T empties exactly one
\* square, which held an opponent piece: of type T when the opponent has one,
\* else of the first type the opponent has in the order pawn, queen, king.
\* Every other square keeps its content (the pilot and all own pieces stay),
\* and when the opponent has a piece its count drops by exactly 1.
C21_RobotProxyRemovesOne ==
    [][(lastOp'.op = "execute" /\ lastOp'.ok /\ lastOp'.actionId = "robotProxy") =>
         LET pilot   == Get(Board, lastOp'.args[1])
             opp     == getOpponentColor(pilot.color)
             types   == TypesOf(Board, opp)
             wanted  == IF pilot.type \in types THEN pilot.type
                        ELSE IF "p" \in types THEN "p"
                        ELSE IF "q" \in types THEN "q" ELSE "k"
             removed == Changed(Board, gameState'.chess)
         IN  /\ pilot.color = lastOp'.player
             /\ Cardinality(removed) = 1
             /\ \A sq \in removed : /\ Get(Board, sq) = Piece(opp, wanted)
                                    /\ Get(gameState'.chess, sq) = None
             /\ Get(gameState'.chess, lastOp'.args[1]) = pilot
             /\ PieceCount(gameState'.chess, pilot.color) = PieceCount(Board, pilot.color)
             /\ PieceCount(Board, opp) > 0 =>
                  PieceCount(gameState'.chess, opp) = PieceCount(Board, opp) - 1]_vars

\* white's knight on b1 has piloted the robot; black had no knight, pawn or
\* queen, so the black king went
C21_Witness ==
    /\ lastOp.op = "execute" /\ lastOp.ok /\ lastOp.actionId = "robotProxy"
    /\ lastOp.player = "w"
    /\ lastOp.args = <<SquareAt(1, 1)>>
    /\ Get(Board, SquareAt(1, 1)) = Piece("w", "n")
    /\ PieceCount(Board, "b") = 0

\* C22 (as claimed): Rubber-Band Shot's validateTarget accepts a square only
\* when it holds a piece of the other colour; an empty square and an own
\* piece are refused.
C22_RubberBandValidate ==
    (lastOp.op = "validateTarget" /\ lastOp.actionId = "rubberBand") =>
        (lastOp.ok <=>
           Get(Board, lastOp.args[1]).color = getOpponentColor(lastOp.player))

\* C23 (as claimed): Job Application's validateTarget accepts only an own
\* piece that is not the king, named together with an action other than Job
\* Application itself.
C23_JobApplicationValidate ==
    (lastOp.op = "validateTarget" /\ lastOp.actionId = "jobApplication" /\ lastOp.ok) =>
        /\ Get(Board, lastOp.args[1]).color = lastOp.player
        /\ Get(Board, lastOp.args[1]).type # "k"
        /\ lastOp.args[2] # "jobApplication"

\* C24 (as claimed): Swap Places' validateTarget accepts two squares exactly
\* when both hold non-king pieces of the colour that acts; execute exchanges
\* the contents of the two squares and leaves every other square as it was;
\* and execute applied once more to the same two squares gives back the
\* board it started from.
C24_SwapPlaces ==
    [][/\ (lastOp'.op = "validateTarget" /\ lastOp'.actionId = "swapPlaces") =>
            (lastOp'.ok <=>
               \A i \in 1..2 : /\ Get(Board, lastOp'.args[i]).color = lastOp'.player
                               /\ Get(Board, lastOp'.args[i]).type # "k")
       /\ (lastOp'.op = "execute" /\ lastOp'.ok /\ lastOp'.actionId = "swapPlaces") =>
            LET square1 == lastOp'.args[1]
                square2 == lastOp'.args[2]
                again   == NewChess(Fen(gameState'.chess))
            IN  /\ \A sq \in Squares :
                     Get(gameState'.chess, sq) =
                        IF sq = square1 THEN Get(Board, square2)
                        ELSE IF sq = square2 THEN Get(Board, square1)
                        ELSE Get(Board, sq)
                /\ \A c \in Colors :
                     PieceCount(gameState'.chess, c) = PieceCount(Board, c)
                /\ again.ok
                /\ executeBoard("swapPlaces", gameState', again.chess, lastOp'.args, <<>>)
                     = Board]_vars

\* C25: in every reachable state the phase is creative exactly when halfMoves
\* is 20 or more, and no step but resetGame lowers halfMoves.
C25_PhaseIffThreshold ==
    /\ [](gameState.phase = "creative" <=>
            gameState.halfMoves >= CREATIVE_PHASE_THRESHOLD)
    /\ [][lastOp'.op # "resetGame" => gameState'.halfMoves >= gameState.halfMoves]_vars

\* a move has been made past the threshold, in the creative phase
C25_Witness ==
    /\ Succeeded("makeMove")
    /\ gameState.halfMoves > CREATIVE_PHASE_THRESHOLD
    /\ gameState.phase = "creative"

\* C26 (as claimed): in every reachable state currentPlayer is the chess
\* engine's side to move.
C26_CurrentPlayerIsSideToMove ==
    gameState.currentPlayer = gameState.chess.turn

\* C27: once gameOver is true, every step but resetGame leaves it true and
\* leaves the winner as it was.
C27_GameOverStays ==
    [][(gameState.gameOver /\ lastOp'.op # "resetGame")
       => /\ gameState'.gameOver
          /\ gameState'.winner = gameState.winner]_vars

\* white has lost its last piece and black has won; since then black has
\* carried out Shield, which leaves the board as it was
C27_Witness ==
    /\ Acted("shield")
    /\ lastOp.player = "b"
    /\ PieceCount(Board, "w") = 0
    /\ gameState.gameOver /\ gameState.winner = "b"

\* C28: in every reachable state of the standard phase every action still
\* has its use.
C28_StandardMeansUnused ==
    gameState.phase = "standard" => \A a \in ActionIds : Uses(actionRegistry, a) = 1

\* one move before the threshold an action has just been refused
C28_Witness ==
    /\ lastOp.op = "executeAction" /\ ~lastOp.ok
    /\ gameState.phase = "standard"
    /\ gameState.halfMoves = CREATIVE_PHASE_THRESHOLD - 1

\* C29 (as claimed): the list of available actions, the hook's and the
\* catalogue's alike, is the set of the action ids with a use left in the
\* registry.
C29_AvailableActions ==
    LET left == {a \in ActionIds : Uses(actionRegistry, a) > 0}
    IN  /\ getAvailableActions(actionRegistry) = left
        /\ getAvailableActionsOfCatalogue = left

====
